---------------------------- MODULE Spec2Model ----------------------------
(***************************************************************************)
(* Path generation, optimisation, pruning, spline sampling and path        *)
(* following of the robot (src/src/robot.rs), with the obstacle potential   *)
(* field (src/src/obstacle.rs) and the planar vector helpers               *)
(* (src/src/position.rs).                                                   *)
(*                                                                         *)
(* Numbers.  The program computes in f32.  The model computes in fixed     *)
(* point: a length or coordinate is an integer count of 1/Unit world units *)
(* (Unit = 10000, so 0.0001 is one grid unit), an angle is an integer      *)
(* count of 1/Unit radians, a time is an integer count of milliseconds and *)
(* a spline parameter / path progress is an integer count of thousandths.  *)
(* Divisions and square roots round to the nearest integer.  NaN, which    *)
(* the program produces by 0.0/0.0, is the value NaN.                       *)
(***************************************************************************)
EXTENDS Integers, Sequences, FiniteSets, TLC

VARIABLES
    position,               \* robot.model.config.position, [x, y]
    obstacles,              \* the obstacle list handed to generate_path
    path_points,            \* robot.path_points: sequence of PathPoint
    velocity_x,             \* robot.velocity_x
    velocity_y,             \* robot.velocity_y
    current_path_progress,  \* robot.current_path_progress, in thousandths
    target_speed,           \* robot.target_speed, grid units per second
    follow_path,            \* robot.follow_path
    velocity_update_timer,  \* robot.velocity_update_timer, in milliseconds
    frame_dt,               \* update.since_last of this run's frames, in ms
    pc,                     \* where the running generate_path call stands
    gen,                    \* the running call's arguments and locals
    hist,                   \* what the last calls did (observation only)
    sample,                 \* the last spline sample taken by SampleSpline
    ui                      \* main.rs: AppModel's ui fields and OBSTACLES_REF

vars == <<position, obstacles, path_points, velocity_x, velocity_y,
          current_path_progress, target_speed, follow_path,
          velocity_update_timer, frame_dt, pc, gen, hist, sample, ui>>

-----------------------------------------------------------------------------
(* Fixed-point arithmetic *)

\* Grid units per world unit: the resolution that stands for f32.
Unit == 10000

Abs(a) == IF a < 0 THEN -a ELSE a

Sgn(a) == IF a < 0 THEN -1 ELSE IF a > 0 THEN 1 ELSE 0

Max(a, b) == IF a >= b THEN a ELSE b

Min(a, b) == IF a <= b THEN a ELSE b

\* F(v) with v evaluated once, like a let binding of the source.  (TLC may
\* evaluate the definition of a LET, and the argument of an operator, every
\* time it is used, which a recursion multiplies.)
Eval(v, F(_)) == CHOOSE r \in {F(w) : w \in {v}} : TRUE

\* The f32 result of a division by 0.0 (NaN for 0.0 / 0.0, else an infinity):
\* a value outside every coordinate's range.
NaN == -(2 ^ 30)

IsNaN(v) == v = NaN

\* a / b rounded to the nearest integer, b > 0.
RoundDiv(a, b) == Eval(a, LAMBDA v : Sgn(v) * ((Abs(v) + (b \div 2)) \div b))

RECURSIVE NewtonSqrt(_, _)
NewtonSqrt(n, x) ==
    Eval((x + (n \div x)) \div 2,
         LAMBDA y : IF y >= x THEN x ELSE NewtonSqrt(n, y))

\* floor(sqrt(n)), n >= 0.
FloorSqrt(n) == IF n = 0 THEN 0 ELSE NewtonSqrt(n, Min(n, 46340))

\* f32::sqrt: sqrt(n) rounded to the nearest integer.
Sqrt(n) ==
    Eval(n, LAMBDA v :
        Eval(FloorSqrt(v), LAMBDA r : IF v - r * r > r THEN r + 1 ELSE r))

\* Vectors longer than this are measured at a sixteenth of the resolution, so
\* that squares stay inside 32 bits (f32 likewise keeps relative precision).
Wide == 3 * Unit

\* sqrt(dx^2 + dy^2).
Hypot(dx, dy) ==
    Eval(<<Abs(dx), Abs(dy)>>, LAMBDA a :
        IF a[1] <= Wide /\ a[2] <= Wide
        THEN Sqrt(a[1] * a[1] + a[2] * a[2])
        ELSE 16 * Sqrt((a[1] \div 16) * (a[1] \div 16)
                       + (a[2] \div 16) * (a[2] \div 16)))

\* std::f32::consts::PI, in 1/Unit.
PI == 31416

\* cos(a) in 1/Unit for an angle a in 1/Unit radians, 0 <= a <= about 1.2 rad
\* (the field is evaluated for dist <= calculation_radius only): Taylor
\* series to a^6.
Cos(a) ==
    Eval((a * a) \div Unit, LAMBDA a2 :
    Eval((a2 * a2) \div Unit, LAMBDA a4 :
    Eval((a4 * a2) \div Unit, LAMBDA a6 :
         Unit - (a2 \div 2) + (a4 \div 24) - (a6 \div 720))))

\* sin(a) in 1/Unit, same range: Taylor series to a^7.
Sin(a) ==
    Eval((a * a) \div Unit, LAMBDA a2 :
    Eval((a * a2) \div Unit, LAMBDA a3 :
    Eval((a3 * a2) \div Unit, LAMBDA a5 :
    Eval((a5 * a2) \div Unit, LAMBDA a7 :
         a - (a3 \div 6) + (a5 \div 120) - (a7 \div 5040)))))

-----------------------------------------------------------------------------
(* position.rs *)

Pos(x, y, z) == [x |-> x, y |-> y, z |-> z]

ORIGIN == Pos(0, 0, 0)

\* Position::approx_equals: EPSILON = 0.0001 is one grid unit.
EPSILON == Unit \div 10000

approx_equals(p, q) ==
    /\ Abs(p.x - q.x) < EPSILON
    /\ Abs(p.y - q.y) < EPSILON
    /\ Abs(p.z - q.z) < EPSILON

\* Position::distance_to: planar distance.
distance_to(p, q) == Hypot(p.x - q.x, p.y - q.y)

\* Position::dot, for vectors whose components are at most Wide.
dot(p, q) == p.x * q.x + p.y * q.y

\* Position::minus
minus(p, q) == Pos(p.x - q.x, p.y - q.y, p.z - q.z)

\* Position::norm2D: the unit vector, components in 1/Unit; the zero vector
\* when the norm is at most f32::EPSILON (1.2e-7, below one grid unit).
norm2D(p) ==
    Eval(Hypot(p.x, p.y), LAMBDA norm :
        IF norm = 0 THEN ORIGIN
        ELSE Pos(RoundDiv(p.x * Unit, norm), RoundDiv(p.y * Unit, norm), 0))

-----------------------------------------------------------------------------
(* obstacle.rs *)

DEFAULT_BUFFER_RADIUS == Unit \div 5

DEFAULT_ROBOT_RADIUS == Unit \div 2

\* EPS = 0.00005, half a grid unit: dist < EPS is dist = 0 on the grid.
EPS == 1

\* Obstacle::new, for a model placed at (x, y) with scale 2 * radius.
NewObstacle(x, y, radius) ==
    LET calculation_radius == radius + DEFAULT_ROBOT_RADIUS + DEFAULT_BUFFER_RADIUS
    IN  [position |-> Pos(x, y, 0),
         radius |-> radius,
         calculation_radius |-> calculation_radius,
         b |-> RoundDiv(calculation_radius * PI, Unit),
         robot_radius |-> DEFAULT_ROBOT_RADIUS,
         buffer_radius |-> DEFAULT_BUFFER_RADIUS]

get_radius(o) == o.radius

\* Obstacle::set_radius with update_calculation_radius.
set_radius(o, radius) ==
    LET calculation_radius == radius + o.robot_radius + o.buffer_radius
    IN  [o EXCEPT !.radius = radius,
                  !.calculation_radius = calculation_radius,
                  !.b = RoundDiv(calculation_radius * PI, Unit)]

\* The angle PI * dist / b of both field functions, in 1/Unit radians.
FieldAngle(o, dist) == RoundDiv(PI * dist, o.b)

\* The field cut off a buffer radius further out than line 78 does.
cosine_field_padded(o, pos) ==
    Eval(distance_to(pos, o.position), LAMBDA dist :
        IF dist > o.calculation_radius + o.buffer_radius THEN 0
        ELSE Eval(FieldAngle(o, dist), LAMBDA angle :
                  RoundDiv((o.b \div 2) * Cos(angle), Unit)))

\* The field with >= for the > of line 78.
cosine_field_closed(o, pos) ==
    Eval(distance_to(pos, o.position), LAMBDA dist :
        IF dist >= o.calculation_radius THEN 0
        ELSE Eval(FieldAngle(o, dist), LAMBDA angle :
                  RoundDiv((o.b \div 2) * Cos(angle), Unit)))

\* Obstacle::cosine_field_function
cosine_field_function(o, pos) ==
    Eval(distance_to(pos, o.position), LAMBDA dist :
        IF dist > o.calculation_radius THEN 0
        ELSE Eval(FieldAngle(o, dist), LAMBDA angle :
                  RoundDiv((o.b \div 2) * Cos(angle), Unit)))

\* Obstacle::cosine_gradient_function.  The result is in thousandths of a grid
\* unit: ADJUST_RATE = 0.001 scales PI/2 * sin(..) down by that factor.
cosine_gradient_function(o, pos) ==
    Eval(distance_to(pos, o.position), LAMBDA dist :
        IF dist > o.calculation_radius \/ dist < EPS THEN <<0, 0>>
        ELSE Eval(FieldAngle(o, dist), LAMBDA angle :
             Eval(RoundDiv((PI \div 2) * Sin(angle), Unit), LAMBDA magnitude :
                  << -RoundDiv(magnitude * (pos.x - o.position.x), dist),
                     -RoundDiv(magnitude * (pos.y - o.position.y), dist) >>)))

\* Thousandths of a grid unit per grid unit: the unit of the gradient and of
\* the optimiser's accumulated displacement.
Fine == 1000

\* The summed potential at pos (robot.rs 155-158, 409-413, 339-343).
HeightAt(obs, pos) ==
    LET RECURSIVE Sum(_)
        Sum(k) == IF k = 0 THEN 0
                  ELSE Sum(k - 1) + cosine_field_function(obs[k], pos)
    IN  Sum(Len(obs))

-----------------------------------------------------------------------------
(* robot.rs: PathPoint and the robot's constants *)

\* PathPoint::new
PathPointNew(x, y) == [position |-> Pos(x, y, 0), height |-> 0]

\* PathPoint::from_position
from_position(p) == [position |-> Pos(p.x, p.y, 0), height |-> p.z]

ROBOT_INITIAL_POSITION == Pos(2 * Unit, 2 * Unit, 0)

\* The robot model's config.scale.
ROBOT_SCALE == Unit

MIN_ADJUST_RATE == Unit \div 10000

MAX_ITERATIONS == 2000

PATH_OPTIMIZATION_THRESHOLD == Unit \div 1000

\* path_points[i] for the code's zero-based index i.
At(path, i) == path[i + 1]

\* Vec::remove(i), zero-based.
Remove(path, i) == SubSeq(path, 1, i) \o SubSeq(path, i + 2, Len(path))

-----------------------------------------------------------------------------
(* robot.rs: generate_path's seeding (lines 136-165) *)

\* The per-step offsets dx, dy (lines 145-146).
\* With segments_count = 0 the f32 quotients are infinite or NaN.
StepOf(start, end, segments_count) ==
    IF segments_count = 0 THEN [dx |-> NaN, dy |-> NaN]
    ELSE [dx |-> RoundDiv(end.x - start.x, segments_count),
          dy |-> RoundDiv(end.y - start.y, segments_count)]

RECURSIVE SeedLoop(_, _, _, _, _)
\* The loop of lines 148-161, from index i on.
SeedLoop(path, i, segments_count, step, obs) ==
    IF i > segments_count THEN path
    ELSE LET prev_point == At(path, i - 1)
         IN  Eval(PathPointNew(prev_point.position.x + step.dx,
                               prev_point.position.y + step.dy), LAMBDA p0 :
             Eval(Append(path, [p0 EXCEPT !.height = HeightAt(obs, p0.position)]),
                  LAMBDA longer :
                      SeedLoop(longer, i + 1, segments_count, step, obs)))

\* The seeding without the push of line 163.
SeedPathNoTarget(start, end, segments_count, obs) ==
    SeedLoop(<<from_position(start)>>, 1, segments_count,
             StepOf(start, end, segments_count), obs)

\* Lines 139-163: the start, segments_count stepped points, then the target.
SeedPath(start, end, segments_count, obs) ==
    Append(SeedLoop(<<from_position(start)>>, 1, segments_count,
                    StepOf(start, end, segments_count), obs),
           from_position(end))

\* Line 165.
StepDistance(start, end, segments_count) ==
    LET step == StepOf(start, end, segments_count)
    IN  IF IsNaN(step.dx) \/ IsNaN(step.dy) THEN NaN
        ELSE Hypot(step.dx, step.dy)

-----------------------------------------------------------------------------
(* robot.rs: clean_path (lines 420-438) *)

\* Line 422: original_step_distance * 1.3.
CleanThreshold(original_step_distance) ==
    IF IsNaN(original_step_distance) THEN NaN
    ELSE RoundDiv(original_step_distance * 13, 10)

\* The fewest waypoints clean_path leaves (line 428).
MIN_CLEAN_LEN == 12

RECURSIVE CleanLoopNoFloor(_, _, _)
\* clean_path's loop without the break of line 428.
CleanLoopNoFloor(path, i, threshold) ==
    IF ~(i < Len(path) - 1) THEN path
    ELSE IF distance_to(At(path, i).position, At(path, i - 1).position) < threshold
         THEN CleanLoopNoFloor(Remove(path, i), i, threshold)
         ELSE CleanLoopNoFloor(path, i + 1, threshold)

RECURSIVE CleanLoopSkipping(_, _, _)
\* clean_path's loop stepping on to the next index after a removal as well.
CleanLoopSkipping(path, i, threshold) ==
    IF ~(i < Len(path) - 1) THEN path
    ELSE IF Len(path) <= MIN_CLEAN_LEN THEN path
    ELSE IF distance_to(At(path, i).position, At(path, i - 1).position) < threshold
         THEN CleanLoopSkipping(Remove(path, i), i + 1, threshold)
         ELSE CleanLoopSkipping(path, i + 1, threshold)

RECURSIVE CleanLoop(_, _, _)
CleanLoop(path, i, threshold) ==
    IF ~(i < Len(path) - 1) THEN path
    ELSE IF Len(path) <= MIN_CLEAN_LEN THEN path
    ELSE IF distance_to(At(path, i).position, At(path, i - 1).position) < threshold
         THEN Eval(Remove(path, i), LAMBDA rest : CleanLoop(rest, i, threshold))
         ELSE CleanLoop(path, i + 1, threshold)

clean_path(path, original_step_distance) ==
    Eval(path, LAMBDA p : CleanLoop(p, 1, CleanThreshold(original_step_distance)))

-----------------------------------------------------------------------------
(* robot.rs: the optimiser (lines 268-418) *)

\* Lines 276 and 366: obstacle.get_radius() + 0.1.
MinSafeDistance(o) == get_radius(o) + Unit \div 10

\* Lines 364-373: some obstacle's centre is closer than its safe distance.
TooCloseToObstacle(pt, obs) ==
    \E k \in 1..Len(obs) :
        distance_to(pt.position, obs[k].position) < MinSafeDistance(obs[k])

\* The convergence predicate with >= for the > of line 270.
PointFailsAtThreshold(pt, obs) ==
    pt.height >= 0 \/ TooCloseToObstacle(pt, obs)

\* Lines 270-282 and 375: the point fails the convergence predicate.
PointFails(pt, obs) ==
    pt.height > PATH_OPTIMIZATION_THRESHOLD \/ TooCloseToObstacle(pt, obs)

\* Robot::is_path_optimized: no interior point fails.
is_path_optimized(path, obs) ==
    \A i \in 1..(Len(path) - 2) : ~PointFails(At(path, i), obs)

\* Line 388, `diff.norm2D() > 0.001`, read as: diff is longer than 0.001.
PushApplies(diff) == Hypot(diff.x, diff.y) > Unit \div 1000

\* Lines 380-395: one obstacle's contribution, subtracted from total_delta
\* (in thousandths of a grid unit).
ObstacleDelta(o, pt) ==
    LET gradient == cosine_gradient_function(o, pt.position)
        dist == distance_to(pt.position, o.position)
        diff == minus(pt.position, o.position)
    IN  IF dist < MinSafeDistance(o)
        THEN IF PushApplies(diff)
             THEN Eval(norm2D(diff), LAMBDA push :
                      <<RoundDiv(push.x * Fine, 2), RoundDiv(push.y * Fine, 2)>>)
             ELSE <<0, 0>>
        ELSE gradient

RECURSIVE TotalDelta(_, _, _)
\* Lines 377-396: total_delta after the first k obstacles.
TotalDelta(obs, pt, k) ==
    IF k = 0 THEN <<0, 0>>
    ELSE Eval(TotalDelta(obs, pt, k - 1), LAMBDA acc :
         Eval(ObstacleDelta(obs[k], pt), LAMBDA d :
              <<acc[1] - d[1], acc[2] - d[2]>>))

\* Lines 398-405: components below MIN_ADJUST_RATE are raised to it.
ClampDelta(t) ==
    IF Abs(t[1]) < MIN_ADJUST_RATE * Fine /\ Abs(t[2]) < MIN_ADJUST_RATE * Fine
    THEN <<IF t[1] # 0 THEN Sgn(t[1]) * MIN_ADJUST_RATE * Fine ELSE t[1],
           IF t[2] # 0 THEN Sgn(t[2]) * MIN_ADJUST_RATE * Fine ELSE t[2]>>
    ELSE t

\* Lines 375-414 for one point.
RelaxPoint(pt, obs) ==
    IF PointFails(pt, obs)
    THEN Eval(TotalDelta(obs, pt, Len(obs)), LAMBDA sum :
         Eval(ClampDelta(sum), LAMBDA total_delta :
         Eval(Pos(pt.position.x + RoundDiv(total_delta[1], Fine),
                  pt.position.y + RoundDiv(total_delta[2], Fine),
                  pt.position.z), LAMBDA moved :
              [position |-> moved, height |-> HeightAt(obs, moved)])))
    ELSE pt

\* Robot::optimize_path_single_iteration: every interior point, in place.
optimize_path_single_iteration(path, obs) ==
    IF Len(path) <= 2 THEN path
    ELSE SubSeq([i \in 1..Len(path) |->
                    IF i = 1 \/ i = Len(path) THEN path[i]
                    ELSE RelaxPoint(path[i], obs)], 1, Len(path))

\* Lines 304-306: position.z of every point is set to 0.
ZeroZ(path) ==
    [i \in 1..Len(path) |-> [path[i] EXCEPT !.position.z = 0]]

RECURSIVE NearestObstacleIdx(_, _, _, _, _)
\* Lines 313-322: the first obstacle at the least distance (index 0 if none).
NearestObstacleIdx(obs, pt, idx, nearest, min_dist) ==
    IF idx >= Len(obs) THEN nearest
    ELSE Eval(distance_to(pt.position, obs[idx + 1].position), LAMBDA dist :
             IF min_dist = -1 \/ dist < min_dist
             THEN NearestObstacleIdx(obs, pt, idx + 1, idx, dist)
             ELSE NearestObstacleIdx(obs, pt, idx + 1, nearest, min_dist))

\* The corrective push without the height test of line 312.
CorrectPointAny(pt, obs) ==
    IF Len(obs) > 0
    THEN Eval(obs[NearestObstacleIdx(obs, pt, 0, 0, -1) + 1], LAMBDA o :
         LET dx == pt.position.x - o.position.x
             dy == pt.position.y - o.position.y
         IN  Eval(Hypot(dx, dy), LAMBDA dist :
             IF dist > Unit \div 1000
             THEN Eval(Pos(pt.position.x + RoundDiv(dx * (Unit \div 2), dist),
                           pt.position.y + RoundDiv(dy * (Unit \div 2), dist),
                           pt.position.z), LAMBDA moved :
                       [position |-> moved, height |-> HeightAt(obs, moved)])
             ELSE pt))
    ELSE pt

\* Lines 312-346 for one point: the corrective push of 0.5 away from the
\* nearest obstacle.
CorrectPoint(pt, obs) ==
    IF pt.height > PATH_OPTIMIZATION_THRESHOLD /\ Len(obs) > 0
    THEN Eval(obs[NearestObstacleIdx(obs, pt, 0, 0, -1) + 1], LAMBDA o :
         LET dx == pt.position.x - o.position.x
             dy == pt.position.y - o.position.y
         IN  Eval(Hypot(dx, dy), LAMBDA dist :
             IF dist > Unit \div 1000
             THEN Eval(Pos(pt.position.x + RoundDiv(dx * (Unit \div 2), dist),
                           pt.position.y + RoundDiv(dy * (Unit \div 2), dist),
                           pt.position.z), LAMBDA moved :
                       [position |-> moved, height |-> HeightAt(obs, moved)])
             ELSE pt))
    ELSE pt

\* Lines 311-347: the corrective pass over the interior points.
CorrectivePass(path, obs) ==
    SubSeq([i \in 1..Len(path) |->
               IF i = 1 \/ i = Len(path) THEN path[i]
               ELSE CorrectPoint(path[i], obs)], 1, Len(path))

-----------------------------------------------------------------------------
(* robot.rs: get_points_of_curvature (lines 441-482) *)

\* Line 455 compares the cosine dot/(|v| |v_path|) with 0.999999.  With
\* cross = v.x * v_path.y - v.y * v_path.x, |v|^2 |v_path|^2 = dot^2 + cross^2,
\* so cosine > 0.999999 is: dot > 0 and |cross| < dot * 0.0014142.., that is
\* |cross| * 707.1 < dot, decided on the grid as |cross| <= dot div TanLimit.
TanLimit == 708

\* Both vectors at a sixteenth of the resolution when either is too long for
\* its products to fit in 32 bits; the cosine does not depend on the scale.
Shrink(v, w) ==
    IF Max(Max(Abs(v.x), Abs(v.y)), Max(Abs(w.x), Abs(w.y))) > Wide
    THEN 16 ELSE 1

\* The closure is_colinear_to_path (lines 453-456).
is_colinear_to_path(v, v_path) ==
    IF approx_equals(v, ORIGIN) THEN FALSE
    ELSE LET k == Shrink(v, v_path)
             a == Pos(v.x \div k, v.y \div k, 0)
             b == Pos(v_path.x \div k, v_path.y \div k, 0)
             cross == a.x * b.y - a.y * b.x
         IN  /\ Hypot(v_path.x, v_path.y) # 0
             /\ dot(a, b) > 0
             /\ Abs(cross) <= dot(a, b) \div TanLimit

\* Lines 446-457: the test that makes index i the centre of a removal window.
IsTransition(path, i) ==
    LET pos_i == At(path, 0).position
        v1 == minus(At(path, i - 1).position, pos_i)
        v2 == minus(At(path, i).position, pos_i)
        v3 == minus(At(path, i + 1).position, pos_i)
        v_path == minus(At(path, Len(path) - 1).position, pos_i)
    IN  /\ is_colinear_to_path(v2, v_path)
        /\ is_colinear_to_path(v1, v_path) # is_colinear_to_path(v3, v_path)
        /\ i < Len(path) - 2

\* Lines 461 and 463: scale * 0.25.
WindowDistance == ROBOT_SCALE \div 4

RECURSIVE ExpandWindow(_, _, _, _)
\* The loop of lines 461-466: remove_count when it ends.
ExpandWindow(path, i, remove_count, dist) ==
    LET go(d) == /\ d < WindowDistance
                 /\ i + remove_count < Len(path)
                 /\ i - remove_count > 0
    IN  IF ~go(dist) THEN remove_count
        ELSE LET d2 == distance_to(At(path, i - remove_count).position,
                                   At(path, i).position)
             IN  IF go(d2) THEN ExpandWindow(path, i, remove_count + 1, d2)
                 ELSE ExpandWindow(path, i, remove_count, d2)

\* start_idx..=end_idx as a sequence of indices (lines 467-471).
IndexRange(start_idx, end_idx) ==
    [k \in 1..(end_idx - start_idx + 1) |-> start_idx + k - 1]

RECURSIVE MarkLoop(_, _, _)
\* The loop of lines 445-476: the indices marked for removal, in push order.
MarkLoop(path, i, points) ==
    IF ~(i < Len(path) - 2) THEN points
    ELSE IF IsTransition(path, i)
         THEN LET remove_count == ExpandWindow(path, i, 1, 0)
                  start_idx == i - remove_count
                  end_idx == Min(i + remove_count, Len(path) - 1)
              IN  MarkLoop(path, end_idx + 1,
                           points \o IndexRange(start_idx, end_idx))
         ELSE MarkLoop(path, i + 1, points)

\* The indices get_points_of_curvature marks (zero-based).
MarkedPoints(path) == MarkLoop(path, 2, <<>>)

RECURSIVE RemoveRev(_, _, _)
\* Lines 479-481: Vec::remove for each marked index, last pushed first.
\* Vec::remove panics on an index that is out of range: panic is then TRUE and
\* path is what had been removed up to there.
RemoveRev(path, points, k) ==
    IF k = 0 THEN [path |-> path, panic |-> FALSE]
    ELSE IF points[k] >= Len(path) THEN [path |-> path, panic |-> TRUE]
    ELSE RemoveRev(Remove(path, points[k]), points, k - 1)

\* A pruning that also moves the waypoint before the first removed one to
\* the middle of the gap the removal opened.
get_points_of_curvature_smoothing(path) ==
    LET points == MarkedPoints(path)
        r == RemoveRev(path, points, Len(points))
        k == points[1]
    IN  IF points = <<>> \/ r.panic \/ k < 1 \/ Len(r.path) < k + 1 THEN r
        ELSE [r EXCEPT !.path[k] =
                 PathPointNew((r.path[k].position.x + r.path[k + 1].position.x) \div 2,
                              (r.path[k].position.y + r.path[k + 1].position.y) \div 2)]

\* Robot::get_points_of_curvature
get_points_of_curvature(path) ==
    LET points == MarkedPoints(path)
    IN  RemoveRev(path, points, Len(points))

-----------------------------------------------------------------------------
(* robot.rs: the spline (lines 221-266) *)

\* Thousandths in one: the unit of the spline parameter t and of the progress.
Milli == 1000

\* Robot::catmull_rom_point, t in thousandths.  B0..B3 are twice the blending
\* functions b0..b3, in thousandths.
catmull_rom_point(p0, p1, p2, p3, t) ==
    Eval(RoundDiv(t * t, Milli), LAMBDA t2 :
    Eval(RoundDiv(t2 * t, Milli), LAMBDA t3 :
    LET B0 == -t3 + 2 * t2 - t
        B1 == 3 * t3 - 5 * t2 + 2 * Milli
        B2 == -3 * t3 + 4 * t2 + t
        B3 == t3 - t2
    IN  Pos(RoundDiv(B0 * p0.x + B1 * p1.x + B2 * p2.x + B3 * p3.x, 2 * Milli),
            RoundDiv(B0 * p0.y + B1 * p1.y + B2 * p2.y + B3 * p3.y, 2 * Milli),
            RoundDiv(B0 * p0.z + B1 * p1.z + B2 * p2.z + B3 * p3.z, 2 * Milli))))

\* Lines 251-256 without the clamp of line 256.
segment_idx_unclamped(path, t) == (t * (Len(path) - 3)) \div Milli

\* Lines 251-256: the index of the first of the four control points, for a
\* path of 4 or more waypoints.
segment_idx(path, t) ==
    Min((t * (Len(path) - 3)) \div Milli, (Len(path) - 3) - 1)

\* The zero-based indices of path_points that catmull_rom_spline(t) reads
\* (lines 246 and 258-261).
ControlIndices(path, t) ==
    IF Len(path) < 4
    THEN IF Len(path) = 0 THEN {} ELSE {0}
    ELSE {segment_idx(path, t) + k : k \in 0..3}

\* Every index read passes the bounds check of Vec's indexing.
InBounds(path, t) == \A i \in ControlIndices(path, t) : i < Len(path)

\* Robot::catmull_rom_spline, t in thousandths: the pair (x, y).
catmull_rom_spline(path, t) ==
    IF Len(path) < 4
    THEN IF Len(path) = 0 THEN <<0, 0>>
         ELSE <<At(path, 0).position.x, At(path, 0).position.y>>
    ELSE Eval(t * (Len(path) - 3), LAMBDA segment_t :
         LET floor_idx == segment_t \div Milli
             local_t == segment_t - floor_idx * Milli
             idx == segment_idx(path, t)
         IN  Eval(catmull_rom_point(At(path, idx).position,
                                    At(path, idx + 1).position,
                                    At(path, idx + 2).position,
                                    At(path, idx + 3).position,
                                    local_t),
                  LAMBDA point : <<point.x, point.y>>))

-----------------------------------------------------------------------------
(* robot.rs: the follower (lines 98-122 and 484-553) *)

\* a / b in f32, the quotient in 1/Unit: 0/0 is NaN.  (The follower divides
\* xv and yv by d = sqrt(xv^2 + yv^2), so d = 0 only with xv = yv = 0.)
FDiv(a, b) == IF b = 0 THEN NaN ELSE RoundDiv(a * Unit, b)

\* u * speed for a quotient u in 1/Unit.
FScale(u, speed) == IF IsNaN(u) THEN NaN ELSE RoundDiv(u * speed, Unit)

\* p + v * dt, dt in milliseconds.
FIntegrate(p, v, dt) ==
    IF IsNaN(p) \/ IsNaN(v) THEN NaN ELSE p + RoundDiv(v * dt, 1000)

\* The control interval 0.02 s (line 495), in milliseconds.
CONTROL_INTERVAL == 20

\* Line 504: 0.001.
MinTargetDistance == Unit \div 1000

\* Line 511.
MaxSearchIterations == 1000

\* The displacement from the current sample to the sample at progress + ci.
Ahead(path, progress, ci) ==
    Eval(<<catmull_rom_spline(path, progress),
           catmull_rom_spline(path, progress + ci)>>, LAMBDA s :
        [xv |-> s[2][1] - s[1][1], yv |-> s[2][2] - s[1][2],
         d |-> Hypot(s[2][1] - s[1][1], s[2][2] - s[1][2]), ci |-> ci])

\* The loop of lines 514-532 ends after its iteration number k (when ci is
\* k thousandths): the break of line 529, or the loop condition fails.
SearchStops(path, progress, target_distance, k) ==
    \/ progress + k >= Milli
    \/ ~(Ahead(path, progress, k).d < target_distance)
    \/ ~(k < MaxSearchIterations)

\* The number of iterations the loop makes: the first at which it ends (it
\* always makes one, d being 0 and target_distance above 0.001 at the start).
SearchLoop(path, progress, target_distance) ==
    CHOOSE k \in 1..MaxSearchIterations :
        /\ SearchStops(path, progress, target_distance, k)
        /\ \A j \in 1..(k - 1) : ~SearchStops(path, progress, target_distance, j)

\* A forward search that consumes no progress.
ForwardSearchStalled(path, progress, speed, dt) == Ahead(path, progress, 0)

\* Lines 501-537: the forward search, or the fixed increment when
\* target_speed * dt <= 0.001.
ForwardSearch(path, progress, speed, dt) ==
    LET target_distance == RoundDiv(speed * dt, 1000)
    IN  IF target_distance <= MinTargetDistance
        THEN Ahead(path, progress, 1)
        ELSE Eval(SearchLoop(path, progress, target_distance),
                  LAMBDA ci : Ahead(path, progress, ci))

\* A follower that starts the path again once it has reached its end.
follow_path_wrapping(r, path, speed, dt) ==
    IF r.current_path_progress >= Milli
    THEN [r EXCEPT !.current_path_progress = 0, !.stepped = FALSE]
    ELSE [r EXCEPT !.current_path_progress = Milli, !.velocity_update_timer = 0,
                   !.stepped = TRUE, !.ci = Milli - r.current_path_progress]

\* A follower that makes a control step on every call, whatever the timer.
follow_path_every_call(r, path, speed, dt) ==
    IF r.current_path_progress >= Milli
    THEN [r EXCEPT !.follow_path = FALSE, !.velocity_x = 0, !.velocity_y = 0,
                   !.stepped = FALSE]
    ELSE Eval(ForwardSearch(path, r.current_path_progress, speed, dt),
              LAMBDA a :
         LET progress == r.current_path_progress + a.ci
         IN  IF progress >= Milli
             THEN [current_path_progress |-> Milli, follow_path |-> FALSE,
                   velocity_x |-> 0, velocity_y |-> 0,
                   velocity_update_timer |-> 0,
                   stepped |-> TRUE, d |-> a.d, ci |-> a.ci]
             ELSE [current_path_progress |-> progress,
                   follow_path |-> r.follow_path,
                   velocity_x |-> FScale(FDiv(a.xv, a.d), speed),
                   velocity_y |-> FScale(FDiv(a.yv, a.d), speed),
                   velocity_update_timer |-> 0,
                   stepped |-> TRUE, d |-> a.d, ci |-> a.ci])

\* A follower whose stop check waits for the control interval like the
\* control step does.
follow_path_gated_stop(r, path, speed, dt) ==
    IF r.velocity_update_timer < CONTROL_INTERVAL
    THEN [r EXCEPT !.stepped = FALSE]
    ELSE follow_path_every_call(r, path, speed, dt)

\* Robot::follow_path_with_dt on the robot fields r (with the timer already
\* advanced by the caller): the fields afterwards, and what the control step
\* did (stepped, d, ci).
follow_path_with_dt(r, path, speed, dt) ==
    IF r.current_path_progress >= Milli
    THEN [r EXCEPT !.follow_path = FALSE, !.velocity_x = 0, !.velocity_y = 0,
                   !.stepped = FALSE]
    ELSE IF r.velocity_update_timer >= CONTROL_INTERVAL
    THEN Eval(ForwardSearch(path, r.current_path_progress, speed, dt),
              LAMBDA a :
         LET xv == FDiv(a.xv, a.d)
             yv == FDiv(a.yv, a.d)
             progress == r.current_path_progress + a.ci
         IN  IF progress >= Milli
             THEN [current_path_progress |-> Milli, follow_path |-> FALSE,
                   velocity_x |-> 0, velocity_y |-> 0,
                   velocity_update_timer |-> 0,
                   stepped |-> TRUE, d |-> a.d, ci |-> a.ci]
             ELSE [current_path_progress |-> progress,
                   follow_path |-> r.follow_path,
                   velocity_x |-> FScale(xv, speed),
                   velocity_y |-> FScale(yv, speed),
                   velocity_update_timer |-> 0,
                   stepped |-> TRUE, d |-> a.d, ci |-> a.ci])
    ELSE [r EXCEPT !.stepped = FALSE]

\* The robot fields follow_path_with_dt reads and writes.
FollowFields(timer) ==
    [current_path_progress |-> current_path_progress,
     follow_path |-> follow_path,
     velocity_x |-> velocity_x, velocity_y |-> velocity_y,
     velocity_update_timer |-> timer,
     stepped |-> FALSE, d |-> 0, ci |-> 0]

\* Write the fields back; a control step is counted in hist, and keys says
\* how many of them follow_path made.
StoreFollowFields(r, keys) ==
    /\ current_path_progress' = r.current_path_progress
    /\ follow_path' = r.follow_path
    /\ velocity_x' = r.velocity_x
    /\ velocity_y' = r.velocity_y
    /\ velocity_update_timer' = r.velocity_update_timer
    /\ hist' = IF r.stepped
               THEN [hist EXCEPT !.steps = hist.steps + 1, !.d = r.d,
                                 !.ci = r.ci, !.keys = hist.keys + keys]
               ELSE hist

\* The timer is only ever compared with the control interval (line 495), so
\* the model records a timer above MaxTimer milliseconds as MaxTimer; and
\* while the robot does not follow, where nothing resets the timer, the model
\* stops the frames once the timer has reached MaxTimer.
MaxTimer == 20

\* How many control steps the calls of follow_path (frames with Space held)
\* make in one behaviour.
MaxKeySteps == 1

\* Robot::update_position(dt) with the frame's dt (main.rs line 74).
UpdatePosition ==
    /\ pc = "idle"
    /\ ~follow_path => velocity_update_timer < MaxTimer
    /\ LET timer == Min(velocity_update_timer + frame_dt, MaxTimer)
       IN  \E r \in {IF follow_path
                     THEN follow_path_with_dt(FollowFields(timer), path_points,
                                              target_speed, frame_dt)
                     ELSE FollowFields(timer)} :
              /\ StoreFollowFields(r, 0)
              /\ position' = [position EXCEPT
                    !.x = FIntegrate(position.x, r.velocity_x, frame_dt),
                    !.y = FIntegrate(position.y, r.velocity_y, frame_dt)]
    /\ UNCHANGED <<obstacles, path_points, target_speed, frame_dt, ui, pc, gen, sample>>

\* Robot::follow_path (lines 484-486), called while Space is held
\* (main.rs line 517).
FollowPathKey ==
    /\ pc = "idle"
    /\ hist.keys < MaxKeySteps
    /\ \E r \in {follow_path_with_dt(FollowFields(velocity_update_timer),
                                      path_points, target_speed,
                                      CONTROL_INTERVAL)} :
          StoreFollowFields(r, 1)
    /\ UNCHANGED <<position, obstacles, path_points, target_speed, frame_dt, ui, pc,
                   gen, sample>>

\* The "Follow Path" button (main.rs line 411).
FollowPathButton ==
    /\ pc = "idle"
    /\ follow_path' = TRUE
    /\ UNCHANGED <<position, obstacles, path_points, velocity_x, velocity_y,
                   current_path_progress, target_speed, velocity_update_timer,
                   frame_dt, ui, pc, gen, hist, sample>>

-----------------------------------------------------------------------------
(* The state after Robot::new (lines 76-87), and the calls of generate_path *)

\* No evaluation of the field yet.
NoProbe == [taken |-> FALSE, obstacle |-> NewObstacle(0, 0, 0), pos |-> ORIGIN,
            potential |-> 0, gradient |-> <<0, 0>>]

\* What the calls so far did; nothing reads it but the properties.  before
\* and relaxed are the path before the last relaxation pass and the path that
\* optimize_path_single_iteration made of it (before clean_path); looped is
\* the path the loop of optimize_path left, optimized the path it returned.
NoHist == [returned |-> FALSE, input |-> <<>>, cleaned |-> <<>>, optimized |-> <<>>,
           corrective |-> FALSE, marked |-> <<>>, steps |-> 0, d |-> 0, ci |-> 0,
           keys |-> 0, sampled |-> -1, probe |-> NoProbe, before |-> <<>>,
           relaxed |-> <<>>, looped |-> <<>>]

\* caller: the function that called optimize_path, "generate_path" (line 167)
\* or "optimize_path" for a call of the public method on its own.
NoGen == [target |-> ORIGIN, segments_count |-> 0, iterations |-> 0,
          original_step_distance |-> 0, caller |-> "generate_path"]

\* Where control goes when optimize_path returns: on to line 168 of
\* generate_path, or back to the caller of the public method.
AfterOptimize == IF gen.caller = "generate_path" THEN "prune" ELSE "idle"

\* The robot at start with the path given, at rest.
RobotAt(start, path) ==
    /\ position = start
    /\ path_points = path
    /\ velocity_x = 0
    /\ velocity_y = 0
    /\ current_path_progress = 0
    /\ target_speed = 2 * Unit
    /\ follow_path = FALSE
    /\ velocity_update_timer = 0
    /\ pc = "idle"
    /\ gen = NoGen
    /\ hist = NoHist
    /\ sample = <<0, 0>>

\* Robot::new, the robot placed at start.
RobotNew(start) == RobotAt(start, <<>>)

\* generate_path without the reset of line 141.
GeneratePathKeepingProgress(target_position, segments_count) ==
    /\ pc = "idle"
    /\ LET start == position
           end == target_position
           seeded == SeedPath(start, end, segments_count, obstacles)
           cleaned == clean_path(seeded, StepDistance(start, end, segments_count))
       IN  /\ path_points' = cleaned
           /\ hist' = [NoHist EXCEPT !.returned = hist.returned, !.cleaned = cleaned]
    /\ gen' = [NoGen EXCEPT !.target = target_position,
                            !.segments_count = segments_count]
    /\ pc' = "optimize"
    /\ sample' = <<0, 0>>
    /\ UNCHANGED <<position, obstacles, velocity_x, velocity_y, target_speed,
                   current_path_progress, follow_path, velocity_update_timer,
                   frame_dt, ui>>

\* generate_path, lines 136-166: seed the path and clean it.
GeneratePath(target_position, segments_count) ==
    /\ pc = "idle"
    /\ LET start == position
           end == target_position
           seeded == SeedPath(start, end, segments_count, obstacles)
           cleaned == clean_path(seeded, StepDistance(start, end, segments_count))
       IN  /\ path_points' = cleaned
           /\ hist' = [NoHist EXCEPT !.returned = hist.returned, !.cleaned = cleaned]
    /\ current_path_progress' = 0
    /\ gen' = [NoGen EXCEPT !.target = target_position,
                            !.segments_count = segments_count]
    /\ pc' = "optimize"
    /\ sample' = <<0, 0>>
    /\ UNCHANGED <<position, obstacles, velocity_x, velocity_y, target_speed,
                   follow_path, velocity_update_timer, frame_dt, ui>>

\* A call of the public optimize_path on the path as it stands, with the
\* obstacles unchanged.  hist.input is the path at the call.
OptimizePath ==
    /\ pc = "idle"
    /\ pc' = "optimize"
    /\ gen' = [gen EXCEPT !.caller = "optimize_path", !.iterations = 0]
    /\ hist' = [hist EXCEPT !.input = path_points, !.corrective = FALSE]
    /\ UNCHANGED <<position, obstacles, path_points, velocity_x, velocity_y,
                   current_path_progress, target_speed, follow_path,
                   velocity_update_timer, frame_dt, ui, sample>>

\* optimize_path, lines 288-296: return at once on a path of two points,
\* else measure the first step and enter the loop.
OptimizeBegin ==
    /\ pc = "optimize"
    /\ IF Len(path_points) <= 2
       THEN /\ pc' = AfterOptimize
            /\ gen' = gen
            /\ hist' = [hist EXCEPT !.looped = path_points,
                                    !.optimized = path_points]
       ELSE /\ pc' = "relax"
            /\ gen' = [gen EXCEPT
                  !.iterations = 0,
                  !.original_step_distance =
                      distance_to(At(path_points, 0).position,
                                  At(path_points, 1).position)]
            /\ hist' = hist
    /\ UNCHANGED <<position, obstacles, path_points, velocity_x, velocity_y,
                   current_path_progress, target_speed, follow_path,
                   velocity_update_timer, frame_dt, ui, sample>>

\* A pass of the loop without the convergence test of line 298.
OptimizeIterateAlways ==
    /\ pc = "relax"
    /\ gen.iterations < MAX_ITERATIONS
    /\ gen' = [gen EXCEPT !.iterations = gen.iterations + 1]
    /\ \E relaxed \in {optimize_path_single_iteration(path_points, obstacles)} :
          /\ path_points' = clean_path(relaxed, gen.original_step_distance)
          /\ hist' = [hist EXCEPT !.before = path_points, !.relaxed = relaxed]
    /\ UNCHANGED <<position, obstacles, velocity_x, velocity_y,
                   current_path_progress, target_speed, follow_path,
                   velocity_update_timer, frame_dt, ui, pc, sample>>

\* A pass of the loop without the budget test of line 298.
OptimizeIterateUnbounded ==
    /\ pc = "relax"
    /\ ~is_path_optimized(path_points, obstacles)
    /\ gen' = [gen EXCEPT !.iterations = gen.iterations + 1]
    /\ \E relaxed \in {optimize_path_single_iteration(path_points, obstacles)} :
          /\ path_points' = clean_path(relaxed, gen.original_step_distance)
          /\ hist' = [hist EXCEPT !.before = path_points, !.relaxed = relaxed]
    /\ UNCHANGED <<position, obstacles, velocity_x, velocity_y,
                   current_path_progress, target_speed, follow_path,
                   velocity_update_timer, frame_dt, ui, pc, sample>>

\* One pass of the loop of lines 298-302.
OptimizeIterate ==
    /\ pc = "relax"
    /\ ~is_path_optimized(path_points, obstacles)
    /\ gen.iterations < MAX_ITERATIONS
    /\ gen' = [gen EXCEPT !.iterations = gen.iterations + 1]
    /\ \E relaxed \in {optimize_path_single_iteration(path_points, obstacles)} :
          /\ path_points' = clean_path(relaxed, gen.original_step_distance)
          /\ hist' = [hist EXCEPT !.before = path_points, !.relaxed = relaxed]
    /\ UNCHANGED <<position, obstacles, velocity_x, velocity_y,
                   current_path_progress, target_speed, follow_path,
                   velocity_update_timer, frame_dt, ui, pc, sample>>

\* Lines 304-350: the loop has ended; zero position.z, and run the corrective
\* pass if the budget is spent and the path still fails.
OptimizeEnd ==
    /\ pc = "relax"
    /\ ~(~is_path_optimized(path_points, obstacles)
         /\ gen.iterations < MAX_ITERATIONS)
    /\ LET flat == ZeroZ(path_points)
           exhausted == /\ gen.iterations >= MAX_ITERATIONS
                        /\ ~is_path_optimized(flat, obstacles)
           result == IF exhausted THEN CorrectivePass(flat, obstacles) ELSE flat
       IN  /\ path_points' = result
           /\ hist' = [hist EXCEPT !.corrective = exhausted,
                                   !.looped = flat,
                                   !.optimized = result]
    /\ pc' = AfterOptimize
    /\ UNCHANGED <<position, obstacles, velocity_x, velocity_y,
                   current_path_progress, target_speed, follow_path,
                   velocity_update_timer, frame_dt, ui, gen, sample>>

\* Line 168: get_points_of_curvature, and generate_path returns (or the
\* process panics in Vec::remove).
Prune ==
    /\ pc = "prune"
    /\ LET r == get_points_of_curvature(path_points)
       IN  /\ path_points' = r.path
           /\ pc' = IF r.panic THEN "panic" ELSE "idle"
    /\ hist' = [hist EXCEPT !.returned = TRUE,
                            !.marked = MarkedPoints(path_points)]
    /\ UNCHANGED <<position, obstacles, velocity_x, velocity_y,
                   current_path_progress, target_speed, follow_path,
                   velocity_update_timer, frame_dt, ui, gen, sample>>

\* Robot::set_target_speed (lines 94-96), called by the speed slider
\* (main.rs lines 345-358).
SetTargetSpeed(speed) ==
    /\ pc = "idle"
    /\ target_speed' = speed
    /\ UNCHANGED <<position, obstacles, path_points, velocity_x, velocity_y,
                   current_path_progress, follow_path, velocity_update_timer,
                   frame_dt, ui, pc, gen, hist, sample>>

\* A call of catmull_rom_spline(t) on the path as it stands.
SampleSpline(t) ==
    /\ pc = "idle"
    /\ IF InBounds(path_points, t)
       THEN sample' = catmull_rom_spline(path_points, t) /\ pc' = pc
       ELSE sample' = sample /\ pc' = "panic"
    /\ hist' = [hist EXCEPT !.sampled = t]
    /\ UNCHANGED <<position, obstacles, path_points, velocity_x, velocity_y,
                   current_path_progress, target_speed, follow_path,
                   velocity_update_timer, frame_dt, ui, gen>>

\* A call of clean_path(original_step_distance) on the path as it stands.
CleanPath(original_step_distance) ==
    /\ pc = "idle"
    /\ Len(path_points) >= 2
    /\ path_points' = clean_path(path_points, original_step_distance)
    /\ hist' = [hist EXCEPT !.input = path_points]
    /\ UNCHANGED <<position, obstacles, velocity_x, velocity_y,
                   current_path_progress, target_speed, follow_path,
                   velocity_update_timer, frame_dt, ui, pc, gen, sample>>

\* The selected obstacle's set_radius(radius) (main.rs line 240).
SetRadius(radius) ==
    /\ pc = "idle"
    /\ Len(obstacles) >= 1
    /\ obstacles' = [obstacles EXCEPT ![1] = set_radius(@, radius)]
    /\ UNCHANGED <<position, path_points, velocity_x, velocity_y,
                   current_path_progress, target_speed, follow_path,
                   velocity_update_timer, frame_dt, ui, pc, gen, hist, sample>>

\* A call of cosine_field_function and of cosine_gradient_function of the
\* first obstacle at pos.
EvaluateField(pos) ==
    /\ pc = "idle"
    /\ Len(obstacles) >= 1
    /\ hist' = [hist EXCEPT !.probe =
                   [taken |-> TRUE,
                    obstacle |-> obstacles[1],
                    pos |-> pos,
                    potential |-> cosine_field_function(obstacles[1], pos),
                    gradient |-> cosine_gradient_function(obstacles[1], pos)]]
    /\ UNCHANGED <<position, obstacles, path_points, velocity_x, velocity_y,
                   current_path_progress, target_speed, follow_path,
                   velocity_update_timer, frame_dt, ui, pc, gen, sample>>

-----------------------------------------------------------------------------
(* main.rs: model() and the event handlers of update() that touch the
   obstacle list, the gradient field or the path; gradient_field.rs lines
   5-28.  One widget fires per frame. *)

\* target_position.rs lines 11-15.
TARGET_INITIAL_POSITION == Pos(5 * Unit, 5 * Unit, 0)

\* The path_segments model() starts with.  model() has 160 (main.rs lines 550
\* and 577); no handler reads the count but to hand it to generate_path, and
\* the model starts with fewer segments, which keeps the recursion of
\* SeedLoop and CleanLoop shallow.
ModelPathSegments == 10

\* The most obstacles in the list.
MaxObstacles == 1

\* selected_obstacle_index = None.
NoneSelected == -1

\* The fields before model() has run.  obstacles_ref is what OBSTACLES_REF
\* points at: "none" (None), "local" (the Vec local to model()), "dead" (that
\* local once model() has returned and the Vec has been moved into AppModel)
\* or "model" (AppModel's obstacles).  gradient_field says whether it is Some.
\* wires, planned, trace and dangling only observe: the obstacle list the
\* gradient wires were last computed from, the list the last generate_path
\* was given, what the last handler did in order, and whether obstacle_sum
\* ever read through a dead pointer.
AppModelStart ==
    [show_gradient_function |-> TRUE,
     gradient_field |-> FALSE,
     obstacles_ref |-> "none",
     selected_obstacle_index |-> NoneSelected,
     path_segments |-> ModelPathSegments,
     target_position |-> TARGET_INITIAL_POSITION,
     wires |-> <<>>, planned |-> <<>>, trace |-> <<>>, dangling |-> FALSE]

\* The handler's trace starts afresh.
Began(u) == [u EXCEPT !.trace = <<>>]

\* The handler does e next.
Note(u, e) == [u EXCEPT !.trace = Append(@, e)]

\* The trace entries that change the obstacle list.
ListMutations == {"push", "set_radius", "set_position", "remove"}

\* gradient_field::set_obstacles_ref(&model.obstacles)
set_obstacles_ref(u) == [Note(u, "set_obstacles_ref") EXCEPT !.obstacles_ref = "model"]

\* What obstacle_sum sums over (gradient_field.rs lines 13-28): nothing when
\* OBSTACLES_REF is None, the list pointed at, and through a dead pointer
\* anything the memory happens to hold (here: no obstacle, or the list).
Seen(ref, obs) ==
    CASE ref = "none" -> {<<>>}
      [] ref \in {"local", "model"} -> {obs}
      [] OTHER -> {<<>>, obs}

\* GradientWire::new and GradientWire::update: generate_gradient_wires
\* evaluates obstacle_sum; the fields afterwards, one for each outcome.
GradientUpdate(u, obs) ==
    { [Note(u, "obstacle_sum") EXCEPT
          !.wires = w,
          !.gradient_field = TRUE,
          !.dangling = @ \/ u.obstacles_ref = "dead"] :
      w \in Seen(u.obstacles_ref, obs) }

\* The refresh without its set_obstacles_ref.
RefreshFieldKeepingRef(u, obs) ==
    IF u.show_gradient_function /\ u.gradient_field
    THEN GradientUpdate(u, obs)
    ELSE {u}

\* Lines 162-168, 265-271 and 284-290: if show_gradient_function,
\* set_obstacles_ref and, if there is a gradient field, update it.
RefreshField(u, obs) ==
    IF u.show_gradient_function
    THEN IF u.gradient_field
         THEN GradientUpdate(set_obstacles_ref(u), obs)
         ELSE {set_obstacles_ref(u)}
    ELSE {u}

\* robot.generate_path(target_position, segments_count, obs), lines 136-166
\* of robot.rs, as the handlers call it: the robot's part.
CallGeneratePath(target_position, segments_count, obs) ==
    /\ LET start == position
           end == target_position
           seeded == SeedPath(start, end, segments_count, obs)
           cleaned == clean_path(seeded, StepDistance(start, end, segments_count))
       IN  /\ path_points' = cleaned
           /\ hist' = [NoHist EXCEPT !.returned = hist.returned, !.cleaned = cleaned]
    /\ current_path_progress' = 0
    /\ gen' = [NoGen EXCEPT !.target = target_position,
                            !.segments_count = segments_count]
    /\ pc' = "optimize"
    /\ sample' = <<0, 0>>

\* The handler calls generate_path against obs.
Planned(u, obs) == [Note(u, "generate_path") EXCEPT !.planned = obs]

\* model(), lines 535-560: the first path, then the gradient field through a
\* pointer to the local obstacles, which are then moved into the AppModel.
ModelSetup ==
    /\ pc = "idle"
    /\ ui.obstacles_ref = "none"
    /\ obstacles = <<>>
    /\ CallGeneratePath(TARGET_INITIAL_POSITION, ModelPathSegments, obstacles)
    /\ \E v \in GradientUpdate(
                   [Note(Planned(Began(ui), obstacles), "set_obstacles_ref")
                       EXCEPT !.obstacles_ref = "local"], obstacles) :
          ui' = [v EXCEPT !.obstacles_ref = "dead"]
    /\ UNCHANGED <<obstacles, position, velocity_x, velocity_y, target_speed, follow_path,
                   velocity_update_timer, frame_dt>>

\* update() runs once model() has returned and no generate_path is running.
InUpdate == pc = "idle" /\ ui.obstacles_ref # "none"

\* The "Show Gradient Function" checkbox (line 87).
ShowGradientCheckbox ==
    /\ InUpdate
    /\ ui' = [Began(ui) EXCEPT !.show_gradient_function = ~@]
    /\ UNCHANGED <<obstacles, path_points, current_path_progress, pc, gen, hist,
                   sample, position, velocity_x, velocity_y, target_speed, follow_path,
                   velocity_update_timer, frame_dt>>

\* The "Update Gradient Field" button (lines 97-118).
UpdateGradientFieldButton ==
    /\ InUpdate
    /\ ui.show_gradient_function
    /\ \E v \in (IF ui.gradient_field
                 THEN GradientUpdate(set_obstacles_ref(Began(ui)), obstacles)
                 ELSE GradientUpdate(
                          set_obstacles_ref(set_obstacles_ref(Began(ui))),
                          obstacles)) :
          ui' = v
    /\ UNCHANGED <<obstacles, path_points, current_path_progress, pc, gen, hist,
                   sample, position, velocity_x, velocity_y, target_speed, follow_path,
                   velocity_update_timer, frame_dt>>

\* The "Add Obstacle" button (lines 148-172), with the position and radius
\* set in the panel.
AddObstacle(pos, radius) ==
    /\ InUpdate
    /\ Len(obstacles) < MaxObstacles
    /\ \E obs \in {Append(obstacles, NewObstacle(pos.x, pos.y, radius))} :
          /\ obstacles' = obs
          /\ \E v \in RefreshField(
                         [Note(Began(ui), "push") EXCEPT
                             !.selected_obstacle_index = Len(obs) - 1], obs) :
                ui' = v
    /\ UNCHANGED <<path_points, current_path_progress, pc, gen, hist, sample,
                   position, velocity_x, velocity_y, target_speed, follow_path,
                   velocity_update_timer, frame_dt>>

\* Lines 193-194: an obstacle is selected.
HasSelection ==
    /\ ui.selected_obstacle_index # NoneSelected
    /\ ui.selected_obstacle_index < Len(obstacles)

\* Lines 236-291 after a change of the selected obstacle that made the list
\* obs: refresh the field, generate_path, refresh the field again.
EditedTo(obs, mutation) ==
    /\ obstacles' = obs
    /\ CallGeneratePath(ui.target_position, ui.path_segments, obs)
    /\ \E v \in RefreshField(Note(Began(ui), mutation), obs) :
          \E w \in RefreshField(Planned(v, obs), obs) : ui' = w
    /\ UNCHANGED <<position, velocity_x, velocity_y, target_speed, follow_path,
                   velocity_update_timer, frame_dt>>

\* The radius slider of the selected obstacle (lines 214, 239-251).
EditRadius(radius) ==
    /\ InUpdate
    /\ HasSelection
    /\ radius # get_radius(obstacles[ui.selected_obstacle_index + 1])
    /\ EditedTo([obstacles EXCEPT ![ui.selected_obstacle_index + 1] =
                    set_radius(@, radius)], "set_radius")

\* The position fields of the selected obstacle (lines 217-232, 253-262).
EditPosition(pos) ==
    /\ InUpdate
    /\ HasSelection
    /\ pos # obstacles[ui.selected_obstacle_index + 1].position
    /\ EditedTo([obstacles EXCEPT ![ui.selected_obstacle_index + 1].position = pos],
                "set_position")

\* The "Delete Obstacle" button (lines 234, 279-291).
DeleteObstacle ==
    /\ InUpdate
    /\ HasSelection
    /\ \E obs \in {Remove(obstacles, ui.selected_obstacle_index)} :
          /\ obstacles' = obs
          /\ \E v \in RefreshField(
                         [Note(Began(ui), "remove") EXCEPT
                             !.selected_obstacle_index = NoneSelected], obs) :
                ui' = v
    /\ UNCHANGED <<path_points, current_path_progress, pc, gen, hist, sample,
                   position, velocity_x, velocity_y, target_speed, follow_path,
                   velocity_update_timer, frame_dt>>

\* The "Path Segments" slider (lines 368-375).
PathSegmentsSlider(segments) ==
    /\ InUpdate
    /\ segments # ui.path_segments
    /\ CallGeneratePath(ui.target_position, segments, obstacles)
    /\ ui' = [Planned(Began(ui), obstacles) EXCEPT !.path_segments = segments]
    /\ UNCHANGED <<obstacles, position, velocity_x, velocity_y, target_speed, follow_path,
                   velocity_update_timer, frame_dt>>

\* The "Generate Path" button (lines 378-381).
GeneratePathButton ==
    /\ InUpdate
    /\ CallGeneratePath(ui.target_position, ui.path_segments, obstacles)
    /\ ui' = Planned(Began(ui), obstacles)
    /\ UNCHANGED <<obstacles, position, velocity_x, velocity_y, target_speed, follow_path,
                   velocity_update_timer, frame_dt>>

-----------------------------------------------------------------------------
(* Path generation and spline sampling *)

\* The robot's start positions, the targets and the segment counts tried.
Starts == {Pos(0, 0, 0), ROBOT_INITIAL_POSITION}

Targets ==
    { Pos(10 * Unit, 0, 0), Pos(2 * Unit, 0, 0), Pos(8000, 0, 0),
      Pos(5 * Unit, 5 * Unit, 0) }

SegmentCounts == {1, 3, 4, 10, 20}

ObstacleLists ==
    { <<>>,
      <<NewObstacle(6000, 10000, 3000)>>,
      <<NewObstacle(15000, 1000, 1000)>>,
      <<NewObstacle(10000, 5000, 3000), NewObstacle(10000, -5000, 3000)>>,
      <<NewObstacle(35000, 36000, 6000)>> }

\* The spline parameters sampled, in thousandths.
SampleTs == {0, Milli \div 2, Milli}

InitGen ==
    /\ \E start \in Starts : RobotNew(start)
    /\ obstacles \in ObstacleLists
    /\ frame_dt = CONTROL_INTERVAL
    /\ ui = AppModelStart

NextGen ==
    \/ \E t \in Targets, n \in SegmentCounts : GeneratePath(t, n)
    \/ OptimizeBegin
    \/ OptimizeIterate
    \/ OptimizeEnd
    \/ Prune
    \/ \E t \in SampleTs : SampleSpline(t)

SpecGen == InitGen /\ [][NextGen]_vars

-----------------------------------------------------------------------------
(* optimize_path, called by generate_path and then again on its own *)

OptTargets == {Pos(5 * Unit, 5 * Unit, 0), Pos(10 * Unit, 0, 0)}

OptSegmentCounts == {3, 10}

OptObstacleLists ==
    { <<>>,
      <<NewObstacle(15000, 1000, 1000)>>,
      <<NewObstacle(35000, 36000, 6000)>> }

InitOpt ==
    /\ RobotNew(ORIGIN)
    /\ obstacles \in OptObstacleLists
    /\ frame_dt = CONTROL_INTERVAL
    /\ ui = AppModelStart

NextOpt ==
    \/ ~hist.returned /\ \E t \in OptTargets, n \in OptSegmentCounts :
                            GeneratePath(t, n)
    \/ OptimizeBegin
    \/ OptimizeIterate
    \/ OptimizeEnd
    \/ Prune
    \/ hist.returned /\ OptimizePath

SpecOpt == InitOpt /\ [][NextOpt]_vars

\* optimize_path is straight-line code: once called, each of its steps is
\* taken.
SpecOptFair ==
    /\ SpecOpt
    /\ WF_vars(OptimizeBegin)
    /\ WF_vars(OptimizeIterate)
    /\ WF_vars(OptimizeEnd)

-----------------------------------------------------------------------------
(* One obstacle: its radius, its field, and a path generated past it *)

\* The obstacle's centre.
FieldCentre == Pos(Unit, Unit \div 2, 0)

\* The radii given to Obstacle::new and to set_radius.
FieldRadii == {-Unit, (3 * Unit) \div 10, Unit}

\* Where the field is evaluated, as offsets from the centre: at the centre,
\* inside, and on and just outside the calculation radius of each radius.
ProbeOffsets ==
    { <<0, 0>>, <<5000, 0>>, <<10000, 0>>, <<10001, 0>>, <<0, 10001>>,
      <<6000, 8000>>, <<6001, 8000>>, <<17000, 0>>, <<17001, 0>>,
      <<0, -17000>>, <<8000, 15000>>, <<8001, 15000>>, <<-17001, 0>>,
      <<30000, 0>>, <<12100, 12100>>, <<-20000, 25000>> }

FieldTargets == {Pos(2 * Unit, 0, 0)}

FieldSegmentCounts == {0, 5}

InitField ==
    /\ RobotNew(ORIGIN)
    /\ \E r \in FieldRadii :
          r >= 0 /\ obstacles = <<NewObstacle(FieldCentre.x, FieldCentre.y, r)>>
    /\ frame_dt = CONTROL_INTERVAL
    /\ ui = AppModelStart

NextField ==
    \/ \E r \in FieldRadii : SetRadius(r)
    \/ \E d \in ProbeOffsets :
          EvaluateField(Pos(FieldCentre.x + d[1], FieldCentre.y + d[2], 0))
    \/ ~hist.returned /\ \E t \in FieldTargets, n \in FieldSegmentCounts :
                            GeneratePath(t, n)
    \/ OptimizeBegin
    \/ OptimizeIterate
    \/ OptimizeEnd
    \/ Prune

SpecField == InitField /\ [][NextField]_vars

-----------------------------------------------------------------------------
(* generate_path called again while the follower is under way *)

RegenFirstTarget == Pos(10 * Unit, 0, 0)

RegenTargets == {Pos(10 * Unit, 2 * Unit, 0), Pos(0, 5 * Unit, 0)}

RegenSegmentCounts == {10, 20}

\* The numbers of control steps after which the second call is made.
RegenSteps == {2, 40}

InitRegen ==
    /\ RobotNew(ORIGIN)
    /\ obstacles = <<NewObstacle(15000, 1000, 1000)>>
    /\ frame_dt = CONTROL_INTERVAL
    /\ ui = AppModelStart

\* The first path is generated before the first frame (main.rs line 550);
\* the second on a click that sets a new target (main.rs line 319).
NextRegen ==
    \/ ~hist.returned /\ GeneratePath(RegenFirstTarget, 10)
    \/ OptimizeBegin
    \/ OptimizeIterate
    \/ OptimizeEnd
    \/ Prune
    \/ hist.returned /\ UpdatePosition
    \/ hist.returned /\ FollowPathButton
    \/ /\ hist.returned
       /\ gen.target = RegenFirstTarget
       /\ hist.steps \in RegenSteps
       /\ \E t \in RegenTargets, n \in RegenSegmentCounts : GeneratePath(t, n)

SpecRegen == InitRegen /\ [][NextRegen]_vars

-----------------------------------------------------------------------------
(* clean_path on its own *)

\* The longest layout tried.
MaxLayoutLen == 14

\* The gaps between successive waypoints of a layout, and the step distances.
Gaps == {Unit \div 2, 2 * Unit}

CleanStepDistances == {Unit \div 2, Unit, 2 * Unit}

RECURSIVE Layout(_, _)
\* The waypoints on the x axis with the gaps g, from x on.
Layout(g, x) ==
    IF g = <<>> THEN <<PathPointNew(x, 0)>>
    ELSE <<PathPointNew(x, 0)>> \o Layout(Tail(g), x + Head(g))

InitClean ==
    /\ \E len \in 2..MaxLayoutLen : \E g \in [1..(len - 1) -> Gaps] :
          RobotAt(ORIGIN, Layout(g, 0))
    /\ obstacles = <<>>
    /\ frame_dt = CONTROL_INTERVAL
    /\ ui = AppModelStart

NextClean == \E d \in CleanStepDistances : CleanPath(d)

SpecClean == InitClean /\ [][NextClean]_vars

-----------------------------------------------------------------------------
(* catmull_rom_spline on paths of every length *)

\* The longest path sampled.
MaxSplineLen == 6

\* The spline parameters sampled, in thousandths: up to 1, just above 1 as
\* the forward search passes them (progress + ci, line 518), and beyond.
SplineTs == {0, Milli \div 2, Milli - 1, Milli, Milli + 1, (3 * Milli) \div 2,
             2 * Milli}

InitSpline ==
    /\ \E len \in 0..MaxSplineLen :
          IF len = 0 THEN RobotAt(ORIGIN, <<>>)
          ELSE \E g \in [1..(len - 1) -> Gaps] : RobotAt(ORIGIN, Layout(g, Unit))
    /\ obstacles = <<>>
    /\ frame_dt = CONTROL_INTERVAL
    /\ ui = AppModelStart

NextSpline == \E t \in SplineTs : SampleSpline(t)

SpecSpline == InitSpline /\ [][NextSpline]_vars

-----------------------------------------------------------------------------
(* generate_path around one obstacle beside the straight line: the pruning *)

PruneTargets == {Pos(10 * Unit, 0, 0)}

PruneSegmentCounts == {10, 20}

PruneObstacleLists ==
    { <<>>,
      <<NewObstacle(30000, 6000, 1000)>>,
      <<NewObstacle(30000, -10000, 5000)>> }

InitPrune ==
    /\ RobotNew(ORIGIN)
    /\ obstacles \in PruneObstacleLists
    /\ frame_dt = CONTROL_INTERVAL
    /\ ui = AppModelStart

NextPrune ==
    \/ \E t \in PruneTargets, n \in PruneSegmentCounts : GeneratePath(t, n)
    \/ OptimizeBegin
    \/ OptimizeIterate
    \/ OptimizeEnd
    \/ Prune

SpecPrune == InitPrune /\ [][NextPrune]_vars

-----------------------------------------------------------------------------
(* The application: model() and then ui events *)

\* The positions and radii set in the panel: the default position of line
\* 591 and one beside the first path; the radius slider's least value (line
\* 131) and one that reaches the path.
UiPositions == {Pos(0, 0, 0), Pos((5 * Unit) \div 2, (39 * Unit) \div 10, 0)}

UiRadii == {Unit \div 10, (3 * Unit) \div 10}

\* The slider's least value and model()'s value (lines 369, 577).
UiSegmentCounts == {5, ModelPathSegments}

InitUi ==
    /\ RobotNew(ROBOT_INITIAL_POSITION)
    /\ obstacles = <<>>
    /\ frame_dt = CONTROL_INTERVAL
    /\ ui = AppModelStart

NextUi ==
    \/ ModelSetup
    \/ ShowGradientCheckbox
    \/ UpdateGradientFieldButton
    \/ \E pos \in UiPositions, radius \in UiRadii : AddObstacle(pos, radius)
    \/ \E radius \in UiRadii : EditRadius(radius)
    \/ \E pos \in UiPositions : EditPosition(pos)
    \/ DeleteObstacle
    \/ \E segments \in UiSegmentCounts : PathSegmentsSlider(segments)
    \/ GeneratePathButton
    \/ OptimizeBegin
    \/ OptimizeIterate
    \/ OptimizeEnd
    \/ Prune

SpecUi == InitUi /\ [][NextUi]_vars

-----------------------------------------------------------------------------
(* The follower on a generated path *)

FollowTargets == {Pos(10 * Unit, 0, 0)}

FollowSegmentCounts == {1, 10}

FollowObstacleLists == {<<>>, <<NewObstacle(15000, 1000, 1000)>>}

\* The speed slider's lowest value and the default (main.rs lines 345, 581).
Speeds == {Unit \div 10, 2 * Unit}

\* Frame times, in milliseconds.
FrameDts == {CONTROL_INTERVAL \div 2, CONTROL_INTERVAL}

InitFollow ==
    /\ RobotNew(ORIGIN)
    /\ obstacles \in FollowObstacleLists
    /\ frame_dt \in FrameDts
    /\ ui = AppModelStart

\* model() generates the first path before the first frame (main.rs line
\* 550); the follower is then watched with no further generate_path.
NextFollow ==
    \/ ~hist.returned /\ \E s \in Speeds : SetTargetSpeed(s)
    \/ ~hist.returned /\ \E t \in FollowTargets, n \in FollowSegmentCounts :
                            GeneratePath(t, n)
    \/ OptimizeBegin
    \/ OptimizeIterate
    \/ OptimizeEnd
    \/ Prune
    \/ hist.returned /\ UpdatePosition
    \/ hist.returned /\ FollowPathButton
    \/ hist.returned /\ FollowPathKey

SpecFollow == InitFollow /\ [][NextFollow]_vars

\* nannou calls update, and so update_position, on every frame.
SpecFollowFair == SpecFollow /\ WF_vars(hist.returned /\ UpdatePosition)

-----------------------------------------------------------------------------
(* The claims *)

\* generate_path has been called and has returned.
Returned == pc = "idle" /\ hist.returned

\* The (x, y) of the waypoints, in order.
Waypoints == [i \in 1..Len(path_points) |->
                 <<path_points[i].position.x, path_points[i].position.y>>]

\* C1: when generate_path returns, the first waypoint is at the robot's start
\* (x, y) and the last waypoint is exactly at the target (x, y).
C1_FirstAtStartLastAtTarget ==
    Returned =>
        /\ Len(path_points) >= 1
        /\ Waypoints[1] = <<position.x, position.y>>
        /\ Waypoints[Len(path_points)] = <<gen.target.x, gen.target.y>>

\* C2: after every generate_path call the path has at least 2 waypoints.
C2_AtLeastTwoWaypoints == Returned => Len(path_points) >= 2

\* C3: clean_path keeps the waypoints at index 0 and at the last index,
\* removes nothing from a path of 12 or fewer waypoints, and leaves at least
\* 12 waypoints of a longer path.
C3_CleanPathKeepsEndsAndFloor ==
    hist.input # <<>> =>
        /\ path_points[1] = hist.input[1]
        /\ path_points[Len(path_points)] = hist.input[Len(hist.input)]
        /\ Len(hist.input) <= 12 => path_points = hist.input
        /\ Len(hist.input) > 12 => Len(path_points) >= 12

\* clean_path has cut a path of more than 12 waypoints down to 12.
C3_Witness ==
    /\ hist.input # <<>>
    /\ Len(hist.input) > 12
    /\ Len(path_points) = 12

\* C4: with an empty obstacle list optimize_path runs no relaxation iteration,
\* moves and removes no waypoint, applies no corrective pass, and leaves
\* every interior waypoint's height at exactly 0.
C4_NoObstaclesNothingMoves ==
    obstacles = <<>> =>
        /\ pc \in {"relax", "prune"} =>
              /\ gen.iterations = 0
              /\ path_points = hist.cleaned
        /\ pc = "prune" =>
              /\ ~hist.corrective
              /\ \A i \in 2..(Len(path_points) - 1) : path_points[i].height = 0

\* optimize_path has returned from its loop on a path with interior
\* waypoints and no obstacles.
C4_Witness ==
    /\ obstacles = <<>>
    /\ pc = "prune"
    /\ Len(path_points) > 2
    /\ gen.original_step_distance > 0

\* generate_path has returned from (0,0) to (10,0) with 10 segments and no
\* obstacles.
LineScenario ==
    /\ Returned
    /\ position = ORIGIN
    /\ gen.target = Pos(10 * Unit, 0, 0)
    /\ gen.segments_count = 10
    /\ obstacles = <<>>

\* C5 as stated: generate_path from (0,0) to (10,0) with 10 segments and no
\* obstacles yields exactly the waypoints (0,0), (1,0), ..., (10,0).
C5_ElevenWaypoints ==
    LineScenario => Waypoints = [i \in 1..11 |-> <<(i - 1) * Unit, 0>>]

\* C5, amended: it yields twelve waypoints, (0,0), (1,0), ..., (10,0) and then
\* (10,0) a second time.
C5_TwelveWaypoints ==
    LineScenario =>
        Waypoints = [i \in 1..12 |-> <<(IF i = 12 THEN 10 ELSE i - 1) * Unit, 0>>]

C5_Witness == LineScenario /\ Len(path_points) = 12

\* How far apart two positions the spec calls approximately equal may be.
Close(a, b) == Abs(a[1] - b[1]) <= Unit \div 100 /\ Abs(a[2] - b[2]) <= Unit \div 100

\* C6: for every path with at least 2 waypoints, catmull_rom_spline(0)
\* returns the position of the path's first waypoint.
C6_SplineStartsAtFirstWaypoint ==
    (hist.sampled = 0 /\ Len(path_points) >= 2) =>
        Close(sample, Waypoints[1])

\* C7: for every path with at least 2 waypoints, catmull_rom_spline(1)
\* returns the position of the path's last waypoint.
C7_SplineEndsAtLastWaypoint ==
    (hist.sampled = Milli /\ Len(path_points) >= 2) =>
        Close(sample, Waypoints[Len(path_points)])

\* The follower has stopped at the end of the path.
Arrived ==
    /\ current_path_progress = Milli
    /\ velocity_x = 0
    /\ velocity_y = 0
    /\ ~follow_path

\* C8: under repeated update_position frames with the follow flag set, the
\* follower eventually reaches progress 1 with velocity (0,0) and the follow
\* flag cleared, and it makes at most 1000 control steps on the way.
C8_FollowerArrives ==
    /\ follow_path ~> Arrived
    /\ [](hist.steps <= 1000)

\* The follower has arrived after 1000 control steps of 0.001 each.
C8_Witness == Arrived /\ hist.steps = 1000

\* C9: across the calls of follow_path_with_dt and update_position,
\* current_path_progress never decreases and never exceeds 1.
C9_ProgressMonotone ==
    [][(pc = "idle" /\ pc' = "idle") =>
          /\ current_path_progress' >= current_path_progress
          /\ current_path_progress' <= Milli]_vars

\* The follower is under way, after several control steps.
C9_Witness ==
    /\ hist.steps >= 2
    /\ current_path_progress > 0
    /\ current_path_progress < Milli

\* C10: after a control step that leaves progress below 1, the velocity is
\* well defined (the distance d it was normalised by is not zero) and its
\* magnitude is target_speed (to 2%, where d is long enough for the grid to
\* resolve the direction).
C10_VelocityWellDefined ==
    (hist.steps > 0 /\ current_path_progress < Milli) =>
        /\ hist.d # 0
        /\ ~IsNaN(velocity_x)
        /\ ~IsNaN(velocity_y)
        /\ hist.d >= Unit \div 100 =>
              Abs(Hypot(velocity_x, velocity_y) - target_speed)
                  <= target_speed \div 50

\* C11: the relaxation loop of optimize_path runs at most MAX_ITERATIONS
\* (2000) passes, and optimize_path, once called, returns, whether or not the
\* path converges.
C11_LoopBoundedAndReturns ==
    /\ [](gen.iterations <= MAX_ITERATIONS)
    /\ (pc = "optimize") ~> (pc \notin {"optimize", "relax"})

\* optimize_path has returned after 2000 passes that did not converge.
C11_Witness ==
    /\ pc \notin {"optimize", "relax"}
    /\ gen.iterations = MAX_ITERATIONS
    /\ hist.corrective

\* optimize_path was called on its own, on a path for which the convergence
\* predicate held.
CalledOnConverged ==
    /\ gen.caller = "optimize_path"
    /\ is_path_optimized(hist.input, obstacles)

\* C12: optimize_path called again on a path for which the convergence
\* predicate already holds, with the same obstacles, runs no relaxation
\* iteration and no corrective pass, and moves and removes no waypoint.
C12_IdempotentOnceConverged ==
    CalledOnConverged =>
        /\ gen.iterations = 0
        /\ ~hist.corrective
        /\ path_points = hist.input

\* The second call has returned, on a path with interior waypoints that the
\* first optimisation had moved clear of an obstacle.
C12_Witness ==
    /\ CalledOnConverged
    /\ pc = "idle"
    /\ Len(hist.input) > 2
    /\ obstacles # <<>>
    /\ hist.input # hist.cleaned

\* The planar distance of the last evaluation's point from the obstacle's
\* centre, as distance_to computes it.
ProbeDistance == distance_to(hist.probe.pos, hist.probe.obstacle.position)

\* C13: for a single obstacle, a point whose planar distance from the centre
\* is strictly greater than calculation_radius yields potential 0 and
\* gradient [0, 0].
C13_CompactSupport ==
    (hist.probe.taken /\ ProbeDistance > hist.probe.obstacle.calculation_radius)
        => /\ hist.probe.potential = 0
           /\ hist.probe.gradient = <<0, 0>>

\* The field was evaluated one grid unit outside a positive calculation
\* radius.
C13_Witness ==
    /\ hist.probe.taken
    /\ hist.probe.obstacle.calculation_radius > 0
    /\ ProbeDistance = hist.probe.obstacle.calculation_radius + 1

\* C14: an obstacle of radius 1.0 (robot radius 0.5, buffer 0.2) has
\* calculation radius 1.7, and at planar distance exactly 1.7 the potential
\* is the non-zero value of the cosine formula, b/2 * cos(1) = 1.4428, not 0.
C14_BoundaryValue ==
    (hist.probe.taken /\ hist.probe.obstacle.radius = Unit) =>
        /\ hist.probe.obstacle.calculation_radius = (17 * Unit) \div 10
        /\ ProbeDistance = (17 * Unit) \div 10 =>
              /\ hist.probe.potential # 0
              /\ Abs(hist.probe.potential - 14428) <= 2

\* The field of an obstacle whose radius set_radius made 1.0 was evaluated
\* at distance exactly 1.7, off the axes.
C14_Witness ==
    /\ hist.probe.taken
    /\ hist.probe.obstacle.radius = Unit
    /\ ProbeDistance = (17 * Unit) \div 10
    /\ hist.probe.pos.x # FieldCentre.x
    /\ hist.probe.pos.y # FieldCentre.y

\* This step is the first part of a generate_path call (lines 136-166).
GeneratePathCalled ==
    pc = "idle" /\ pc' = "optimize" /\ gen'.caller = "generate_path"

\* C15: generate_path fully replaces any prior path: the path it builds is
\* the one seeded from the robot's position and the given target alone, and
\* current_path_progress is reset to 0, while the robot's position, velocity
\* and follow flag stay as they were until the call has returned.
C15_GeneratePathReplaces ==
    /\ [][GeneratePathCalled =>
             /\ path_points' =
                   clean_path(SeedPath(position, gen'.target,
                                       gen'.segments_count, obstacles),
                              StepDistance(position, gen'.target,
                                           gen'.segments_count))
             /\ current_path_progress' = 0]_vars
    /\ [][(GeneratePathCalled \/ pc # "idle") =>
             /\ position' = position
             /\ velocity_x' = velocity_x
             /\ velocity_y' = velocity_y
             /\ follow_path' = follow_path
             /\ pc # "idle" => current_path_progress' = current_path_progress]_vars

\* generate_path has returned from a second call, made with the follower
\* under way on the first path: the robot is off the start, moving, with the
\* follow flag set, and progress is back at 0.
C15_Witness ==
    /\ Returned
    /\ gen.target \in RegenTargets
    /\ position # ORIGIN
    /\ velocity_x # 0
    /\ follow_path
    /\ current_path_progress = 0
    /\ Len(path_points) >= 2

\* C16: malformed inputs are rejected with no state change: set_radius with
\* a negative radius does not update the obstacle, and generate_path with a
\* non-positive segment count does not update the path.
C16_MalformedInputsRejected ==
    /\ [][(\E r \in FieldRadii : r < 0 /\ SetRadius(r)) =>
             obstacles' = obstacles]_vars
    /\ [][(\E t \in FieldTargets, n \in FieldSegmentCounts :
               n <= 0 /\ GeneratePath(t, n)) =>
             path_points' = path_points]_vars

\* Lines 385-388: the point is inside the obstacle's unsafe radius and more
\* than 0.001 from its centre.
InUnsafeRadius(pt, o) ==
    /\ distance_to(pt.position, o.position) < MinSafeDistance(o)
    /\ PushApplies(minus(pt.position, o.position))

\* The interior points of the last pass that were inside the unsafe radius
\* of the only obstacle.
PushedPoints ==
    IF Len(obstacles) = 1
    THEN {i \in 2..(Len(hist.before) - 1) :
             InUnsafeRadius(hist.before[i], obstacles[1])}
    ELSE {}

\* C17: in a relaxation iteration with a single obstacle, an interior point
\* inside the obstacle's unsafe radius (and more than 0.001 from the centre)
\* is displaced by 0.5 directly away from the obstacle's centre, so that its
\* distance from the centre increases.
C17_PushedAway ==
    \A i \in PushedPoints :
        LET o == obstacles[1]
            away == norm2D(minus(hist.before[i].position, o.position))
            moved == minus(hist.relaxed[i].position, hist.before[i].position)
        IN  /\ Abs(moved.x - RoundDiv(away.x, 2)) <= 2
            /\ Abs(moved.y - RoundDiv(away.y, 2)) <= 2
            /\ distance_to(hist.relaxed[i].position, o.position)
                  > distance_to(hist.before[i].position, o.position)

\* optimize_path has just returned: to line 168 of generate_path, or to the
\* caller of the public method.
OptimizeReturned ==
    \/ pc = "prune"
    \/ pc = "idle" /\ gen.caller = "optimize_path"

\* C18: when optimize_path returns, converged or not, position.z and the
\* stored height of every interior waypoint are zero.
C18_HeightChannelZero ==
    OptimizeReturned =>
        \A i \in 2..(Len(path_points) - 1) :
            /\ path_points[i].position.z = 0
            /\ path_points[i].height = 0

\* The loop of optimize_path stopped with the convergence predicate true,
\* and the path it left was returned as it was.
Converged ==
    /\ is_path_optimized(hist.looped, obstacles)
    /\ ~hist.corrective
    /\ path_points = hist.looped

\* Waypoint i was pushed 0.5 away from the obstacle nearest to it.
PushedFromNearest(i) ==
    LET was == hist.looped[i]
        o == obstacles[NearestObstacleIdx(obstacles, was, 0, 0, -1) + 1]
        now == path_points[i]
    IN  /\ Abs(distance_to(now.position, was.position) - Unit \div 2) <= 2
        /\ Abs(distance_to(now.position, o.position)
                 - distance_to(was.position, o.position) - Unit \div 2) <= 2

\* The loop ran MAX_ITERATIONS passes and left the predicate false, and the
\* corrective pass then pushed interior points of height above the threshold,
\* and only those.
Exhausted ==
    /\ gen.iterations = MAX_ITERATIONS
    /\ ~is_path_optimized(hist.looped, obstacles)
    /\ hist.corrective
    /\ Len(path_points) = Len(hist.looped)
    /\ \A i \in 1..Len(path_points) :
          path_points[i] # hist.looped[i] =>
              /\ i \in 2..(Len(path_points) - 1)
              /\ hist.looped[i].height > PATH_OPTIMIZATION_THRESHOLD
              /\ PushedFromNearest(i)

\* C19: optimize_path ends in exactly one of two outcomes: converged, with
\* no corrective pass, or exhausted after exactly MAX_ITERATIONS passes, with
\* the corrective push of 0.5 away from the nearest obstacle applied only to
\* interior points whose height exceeds the threshold.
C19_ConvergedOrExhausted ==
    OptimizeReturned => (Converged # Exhausted)

\* optimize_path has returned exhausted, and its corrective pass moved a
\* waypoint.
C19_Witness ==
    /\ OptimizeReturned
    /\ Exhausted
    /\ \E i \in 1..Len(path_points) : path_points[i] # hist.looped[i]

\* C20: in every relaxation iteration, each interior point that fails the
\* convergence predicate is displaced by at least the minimum step in some
\* component; no failing point is left in place.
C20_FailingPointsMove ==
    \A i \in 2..(Len(hist.before) - 1) :
        PointFails(hist.before[i], obstacles) =>
            \/ Abs(hist.relaxed[i].position.x - hist.before[i].position.x)
                  >= MIN_ADJUST_RATE
            \/ Abs(hist.relaxed[i].position.y - hist.before[i].position.y)
                  >= MIN_ADJUST_RATE

\* C21: every clean pass run inside the loop of optimize_path uses the step
\* distance that generate_path passed to its initial clean (the per-step
\* spacing of the seeded path), for every segment count.
C21_LoopCleansWithSeedStep ==
    (gen.iterations >= 1 /\ gen.caller = "generate_path") =>
        Abs(gen.original_step_distance
              - StepDistance(position, gen.target, gen.segments_count)) <= 2

\* Every waypoint of the path was that is an end of the path or satisfies
\* the convergence predicate has the same (x, y) in the path now.
KeptInPlace(was, now) ==
    /\ Len(now) = Len(was)
    /\ \A i \in 1..Len(was) :
          (i = 1 \/ i = Len(was) \/ ~PointFails(was[i], obstacles)) =>
              /\ now[i].position.x = was[i].position.x
              /\ now[i].position.y = was[i].position.y

\* C22: a relaxation iteration and the corrective pass change the position
\* only of interior waypoints that fail the convergence predicate: the first
\* waypoint, the last waypoint and every interior waypoint that satisfies the
\* predicate keep their (x, y).
C22_OnlyFailingPointsMove ==
    /\ KeptInPlace(hist.before, hist.relaxed)
    /\ hist.looped # <<>> => KeptInPlace(hist.looped, hist.optimized)

\* The corrective pass has moved a waypoint of a path that has an interior
\* waypoint satisfying the predicate, after passes that moved waypoints too.
C22_Witness ==
    /\ hist.corrective
    /\ hist.relaxed # hist.before
    /\ hist.optimized # hist.looped
    /\ \E i \in 2..(Len(hist.looped) - 1) :
          ~PointFails(hist.looped[i], obstacles)

\* The robot fields a call of follow_path_with_dt below the control interval
\* must leave alone.
FollowerKept ==
    UNCHANGED <<velocity_x, velocity_y, current_path_progress, follow_path>>

\* C23: the follower recomputes velocity only at its control cadence: a call
\* of follow_path_with_dt with the progress below 1 and the timer below 0.02
\* (from update_position, which has just added the frame's dt, or from
\* follow_path) leaves the velocity, the progress and the follow flag
\* unchanged; and a control step is made only by a call that finds the timer
\* at 0.02 or more, and leaves the timer at 0.
C23_ControlCadence ==
    [][/\ (/\ UpdatePosition
           /\ follow_path
           /\ current_path_progress < Milli
           /\ velocity_update_timer + frame_dt < CONTROL_INTERVAL) => FollowerKept
       /\ (/\ FollowPathKey
           /\ current_path_progress < Milli
           /\ velocity_update_timer < CONTROL_INTERVAL) => FollowerKept
       /\ hist.steps' > hist.steps =>
             /\ velocity_update_timer' = 0
             /\ \/ UpdatePosition /\ follow_path
                   /\ velocity_update_timer + frame_dt >= CONTROL_INTERVAL
                \/ FollowPathKey /\ velocity_update_timer >= CONTROL_INTERVAL]_vars

\* The robot follows, has made a control step, and the frame after it called
\* follow_path_with_dt with the timer below the control interval.
C23_Witness ==
    /\ pc = "idle"
    /\ follow_path
    /\ hist.steps >= 1
    /\ hist.keys = 0
    /\ current_path_progress \in 1..(Milli - 1)
    /\ velocity_update_timer \in 1..(CONTROL_INTERVAL - 1)
    /\ velocity_x # 0

\* C24: after any call of follow_path_with_dt (from update_position while the
\* robot follows, or from follow_path), a progress of 1 or more comes with the
\* follow flag off and the velocity (0, 0), whatever the timer is.
C24_StoppedAtEnd ==
    [][((UpdatePosition /\ follow_path) \/ FollowPathKey) =>
          (current_path_progress' >= Milli =>
              /\ ~follow_path'
              /\ velocity_x' = 0
              /\ velocity_y' = 0)]_vars

\* A control step has taken the progress to 1 and stopped the robot.
C24_Witness ==
    /\ pc = "idle"
    /\ hist.steps >= 1
    /\ current_path_progress >= Milli
    /\ ~follow_path
    /\ velocity_x = 0
    /\ velocity_y = 0

\* C25: catmull_rom_spline reads no waypoint index outside the path, for every
\* path length and every t >= 0, t above 1 included: on an empty path it
\* returns (0, 0), on a path of 1 to 3 waypoints the position of the first
\* waypoint, and on 4 or more waypoints the control indices segment_idx ..
\* segment_idx + 3 are all below the length.
C25_SplineInBounds ==
    hist.sampled >= 0 =>
        /\ pc # "panic"
        /\ InBounds(path_points, hist.sampled)
        /\ Len(path_points) = 0 => sample = <<0, 0>>
        /\ Len(path_points) \in 1..3 => sample = Waypoints[1]
        /\ Len(path_points) >= 4 =>
               \A k \in 0..3 :
                   segment_idx(path_points, hist.sampled) + k < Len(path_points)

\* A sample taken above t = 1 on a path of 4 or more waypoints, where the
\* clamp of line 256 lowered the segment index.
C25_Witness ==
    /\ pc = "idle"
    /\ hist.sampled > Milli
    /\ Len(path_points) >= 4
    /\ segment_idx_unclamped(path_points, hist.sampled) > Len(path_points) - 4
    /\ segment_idx(path_points, hist.sampled) = Len(path_points) - 4

RECURSIVE IsSubsequence(_, _)
\* The waypoints of now are waypoints of was, unchanged and in was's order.
IsSubsequence(now, was) ==
    IF now = <<>> THEN TRUE
    ELSE IF was = <<>> THEN FALSE
    ELSE IF Head(now) = Head(was) THEN IsSubsequence(Tail(now), Tail(was))
    ELSE IsSubsequence(now, Tail(was))

\* C26: pruning purely trims: the path get_points_of_curvature leaves is a
\* subsequence of the path it was given (the path optimize_path returned); the
\* surviving waypoints keep their positions and their order, and no waypoint
\* is added or moved.
C26_PruningTrims ==
    Returned =>
        IsSubsequence(path_points, hist.optimized)

\* generate_path has returned and its pruning removed waypoints.
C26_Witness ==
    /\ Returned
    /\ Len(hist.marked) >= 1
    /\ Len(path_points) < Len(hist.optimized)

\* The marked indices are strictly increasing and below the length of the
\* path they were marked on.
MarkedInOrder ==
    /\ \A k \in 1..(Len(hist.marked) - 1) : hist.marked[k] < hist.marked[k + 1]
    /\ \A k \in 1..Len(hist.marked) : hist.marked[k] < Len(hist.optimized)

\* The waypoints of path whose zero-based index is not marked, in order.
WithoutMarked(path, marked) ==
    LET kept == SelectSeq([k \in 1..Len(path) |-> k],
                          LAMBDA k : \A m \in 1..Len(marked) : marked[m] # k - 1)
    IN  [j \in 1..Len(kept) |-> path[kept[j]]]

\* Lines 479-481 removed exactly the marked waypoints.
RemovedExactly == path_points = WithoutMarked(hist.optimized, hist.marked)

\* C27: the indices get_points_of_curvature marks are strictly increasing (no
\* two removal windows overlap, no index is marked twice) and each is below
\* the path length; so the removal in reverse order does not panic and leaves
\* exactly the unmarked waypoints.
C27_MarkedOnceAndRemovedExactly ==
    (hist.returned /\ hist.optimized # <<>>) =>
        /\ MarkedInOrder
        /\ pc # "panic"
        /\ RemovedExactly

\* The path has 12 or fewer waypoints, or each interior waypoint (index 1 to
\* length - 2) is at least 1.3 * d from its predecessor.
CleanPostCondition(path, d) ==
    \/ Len(path) <= MIN_CLEAN_LEN
    \/ \A i \in 1..(Len(path) - 2) :
           distance_to(At(path, i).position, At(path, i - 1).position)
               >= CleanThreshold(d)

\* C28: when clean_path(d) returns, the path has 12 or fewer waypoints or
\* every interior waypoint is at planar distance 1.3 * d or more from its
\* predecessor.
C28_CleanPostCondition ==
    [][\A d \in CleanStepDistances :
          CleanPath(d) => CleanPostCondition(path_points', d)]_vars

\* clean_path removed waypoints and left more than 12.
C28_Witness ==
    /\ hist.input # <<>>
    /\ Len(path_points) < Len(hist.input)
    /\ Len(path_points) > MIN_CLEAN_LEN

\* In the last handler's trace, each evaluation of obstacle_sum comes after a
\* set_obstacles_ref with no change of the obstacle list in between.
EvaluationsAfterRef ==
    \A k \in 1..Len(ui.trace) :
        ui.trace[k] = "obstacle_sum" =>
            \E j \in 1..(k - 1) :
                /\ ui.trace[j] = "set_obstacles_ref"
                /\ \A m \in (j + 1)..(k - 1) : ui.trace[m] \notin ListMutations

\* C29: every evaluation of obstacle_sum (GradientWire::new, GradientWire::
\* update) is preceded in the same handler, with no change of the obstacle
\* list in between, by set_obstacles_ref on the live list; obstacle_sum never
\* reads through the pointer model() took to its local list, and the wires
\* are those of the list as it stood, over every sequence of add, edit,
\* delete and update-field events.
C29_FieldReadsLiveObstacles ==
    /\ EvaluationsAfterRef
    /\ ~ui.dangling
    /\ (\E k \in 1..Len(ui.trace) : ui.trace[k] = "obstacle_sum") =>
           ui.wires = obstacles

\* A handler changed the obstacle list and then evaluated the field, after
\* model() had left OBSTACLES_REF pointing at its dead local.
C29_Witness ==
    /\ ui.obstacles_ref = "model"
    /\ ui.wires # <<>>
    /\ \E j, k \in 1..Len(ui.trace) :
          /\ j < k
          /\ ui.trace[j] \in ListMutations
          /\ ui.trace[k] = "obstacle_sum"

\* C30: the path never goes stale: every change of the obstacle list (add,
\* radius, position, delete) is followed in the same update by a call of
\* generate_path against the changed list; so the list the last generate_path
\* was given is the obstacle list.
C30_PathNeverStale ==
    /\ \A j \in 1..Len(ui.trace) :
          ui.trace[j] \in ListMutations =>
              \E k \in (j + 1)..Len(ui.trace) : ui.trace[k] = "generate_path"
    /\ ui.obstacles_ref # "none" => ui.planned = obstacles

=============================================================================
